---------------------------- MODULE Spec2Model ----------------------------
(***************************************************************************)
(* A model of the fixed-width big integer kernel of bnum: BUint<N> is an   *)
(* array of N digits, least significant first.  The crate's digit is a     *)
(* 64-bit word; every algorithm below is written against digit::BITS,      *)
(* digit::BIT_SHIFT and digit::BITS_MINUS_1 only, so the model keeps the   *)
(* algorithms digit for digit and scales the digit to 2^BIT_SHIFT bits.    *)
(*                                                                         *)
(* The state is one call of the library: the build mode, the type's digit  *)
(* count N, the receiver `self`, the operands `other` and `n`, and what    *)
(* the call returned.  Method chains (x.rotate_left(k).rotate_right(k))    *)
(* are further actions on the returned value.                              *)
(***************************************************************************)
EXTENDS Integers, Sequences, FiniteSets, TLC

\* log2 of the digit width (digit::BIT_SHIFT; 6 in the crate, scaled here).
BIT_SHIFT == 1

\* log2 of the byte width (3 in the crate, scaled here with the digit).
BYTE_SHIFT == 0

\* Every type BUint<N> with N * digit::BITS <= MaxBits is explored.
MaxBits == 8

\* Two-operand calls are explored for every type with BITS <= MaxPairBits.
MaxPairBits == 7

(***************************************************************************)
(* The digit primitive (crate::digit and the core integer methods on it).  *)
(***************************************************************************)
RECURSIVE Pow2(_)
Pow2(k) == IF k = 0 THEN 1 ELSE 2 * Pow2(k - 1)

DigitBITS == Pow2(BIT_SHIFT)

DigitBITS_MINUS_1 == DigitBITS - 1

DigitBASE == Pow2(DigitBITS)

DigitMAX == DigitBASE - 1

DigitMIN == 0

Digits == 0 .. DigitMAX

\* a | b on unsigned machine integers
RECURSIVE bitor(_, _)
bitor(a, b) ==
    IF a = 0 THEN b
    ELSE IF b = 0 THEN a
    ELSE (IF a % 2 = 1 \/ b % 2 = 1 THEN 1 ELSE 0) + 2 * bitor(a \div 2, b \div 2)

\* a & b on unsigned machine integers
RECURSIVE bitand(_, _)
bitand(a, b) ==
    IF a = 0 \/ b = 0 THEN 0
    ELSE (IF a % 2 = 1 /\ b % 2 = 1 THEN 1 ELSE 0) + 2 * bitand(a \div 2, b \div 2)

\* d << s on a Digit, 0 <= s < digit::BITS: the bits shifted out are lost
digit_shl(d, s) == (d * Pow2(s)) % DigitBASE

\* d >> s on a Digit, 0 <= s < digit::BITS
digit_shr(d, s) == d \div Pow2(s)

\* Digit::count_ones
RECURSIVE digit_count_ones(_)
digit_count_ones(d) == IF d = 0 THEN 0 ELSE (d % 2) + digit_count_ones(d \div 2)

\* Digit::count_zeros
digit_count_zeros(d) == DigitBITS - digit_count_ones(d)

\* the number of bits d needs: 0 for 0
RECURSIVE digit_len(_)
digit_len(d) == IF d = 0 THEN 0 ELSE 1 + digit_len(d \div 2)

\* Digit::leading_zeros
digit_leading_zeros(d) == DigitBITS - digit_len(d)

\* Digit::trailing_zeros
RECURSIVE digit_trailing_zeros(_)
digit_trailing_zeros(d) ==
    IF d = 0 THEN DigitBITS
    ELSE IF d % 2 = 1 THEN 0
    ELSE 1 + digit_trailing_zeros(d \div 2)

\* !d on a Digit
digit_not(d) == DigitMAX - d

\* Digit::leading_ones
digit_leading_ones(d) == digit_leading_zeros(digit_not(d))

\* Digit::trailing_ones
digit_trailing_ones(d) == digit_trailing_zeros(digit_not(d))

\* the width of a byte and the number of bytes of a digit
ByteBITS == Pow2(BYTE_SHIFT)
ByteBASE == Pow2(ByteBITS)
DigitBYTES == DigitBITS \div ByteBITS

\* Digit::swap_bytes: byte k of the digit goes to byte DigitBYTES - 1 - k
RECURSIVE digit_swap_bytes_from(_, _)
digit_swap_bytes_from(d, k) ==
    IF k >= DigitBYTES
    THEN 0
    ELSE ((d \div Pow2(k * ByteBITS)) % ByteBASE) * Pow2((DigitBYTES - 1 - k) * ByteBITS)
         + digit_swap_bytes_from(d, k + 1)

digit_swap_bytes(d) == digit_swap_bytes_from(d, 0)

\* Digit::reverse_bits: bit k of the digit goes to bit DigitBITS - 1 - k
RECURSIVE digit_reverse_bits_from(_, _)
digit_reverse_bits_from(d, k) ==
    IF k >= DigitBITS
    THEN 0
    ELSE ((d \div Pow2(k)) % 2) * Pow2(DigitBITS - 1 - k)
         + digit_reverse_bits_from(d, k + 1)

digit_reverse_bits(d) == digit_reverse_bits_from(d, 0)

(***************************************************************************)
(* BUint<N>: a sequence of N digits; digits[i] of the code is u[i + 1].    *)
(***************************************************************************)
digit(u, i) == u[i + 1]

set_digit(u, i, d) == [u EXCEPT ![i + 1] = d]

\* [d; N]
from_digits_all(d, N) == [i \in 1 .. N |-> d]

\* BUint::ZERO = BUint::MIN
ZERO(N) == from_digits_all(DigitMIN, N)

\* BUint::MAX
MAX(N) == from_digits_all(DigitMAX, N)

\* BUint::BITS
BITS(N) == DigitBITS * N

\* BUint::BITS_MINUS_1
BITS_MINUS_1(N) == BITS(N) - 1

\* BUint::N_MINUS_1
N_MINUS_1(N) == N - 1

\* BUint::BYTES
BYTES(N) == BITS(N) \div ByteBITS

\* The value a digit array denotes: the sum of digit[i] * BASE^i.
RECURSIVE ValueFrom(_, _)
ValueFrom(u, i) ==
    IF i >= Len(u) THEN 0 ELSE digit(u, i) + DigitBASE * ValueFrom(u, i + 1)

Value(u) == ValueFrom(u, 0)

(***************************************************************************)
(* Rotation, buint/mod.rs.                                                 *)
(***************************************************************************)
\* The two copies of rotate_digits_left: digits[0 .. N-n) go to out[n .. N),
\* digits[N-n .. N) go to out[0 .. n).  Defined for n <= N only, as the
\* pointer arithmetic is.
rotate_digits_left(u, n) ==
    [k \in 1 .. Len(u) |->
        LET i == k - 1 IN
        IF i >= n THEN digit(u, i - n) ELSE digit(u, Len(u) - n + i)]

\* The carry loop of unchecked_rotate_left, from digit i on.
RECURSIVE rotate_carry_loop(_, _, _, _)
rotate_carry_loop(out0, i, carry, bit_shift) ==
    IF i < Len(out0)
    THEN LET current_digit == digit(out0, i)
             carry_shift == DigitBITS - bit_shift
         IN  rotate_carry_loop(
                 set_digit(out0, i, bitor(digit_shl(current_digit, bit_shift), carry)),
                 i + 1,
                 digit_shr(current_digit, carry_shift),
                 bit_shift)
    ELSE set_digit(out0, 0, bitor(digit(out0, 0), carry))

\* The same loop without the final `out.digits[0] |= carry`.
RECURSIVE rotate_carry_loop_dropped(_, _, _, _)
rotate_carry_loop_dropped(out0, i, carry, bit_shift) ==
    IF i < Len(out0)
    THEN LET current_digit == digit(out0, i)
             carry_shift == DigitBITS - bit_shift
         IN  rotate_carry_loop_dropped(
                 set_digit(out0, i, bitor(digit_shl(current_digit, bit_shift), carry)),
                 i + 1,
                 digit_shr(current_digit, carry_shift),
                 bit_shift)
    ELSE out0

unchecked_rotate_left_dropped(u, rhs) ==
    LET digit_shift == rhs \div DigitBITS
        bit_shift == bitand(rhs, DigitBITS_MINUS_1)
        rotated == rotate_digits_left(u, digit_shift)
    IN  IF bit_shift # 0 THEN rotate_carry_loop_dropped(rotated, 0, 0, bit_shift) ELSE rotated

unchecked_rotate_left(u, rhs) ==
    LET digit_shift == rhs \div DigitBITS
        bit_shift == bitand(rhs, DigitBITS_MINUS_1)
        rotated == rotate_digits_left(u, digit_shift)
    IN  IF bit_shift # 0 THEN rotate_carry_loop(rotated, 0, 0, bit_shift) ELSE rotated

rotate_left(u, n) == unchecked_rotate_left(u, bitand(n, BITS_MINUS_1(Len(u))))

rotate_right(u, n) ==
    LET m == bitand(n, BITS_MINUS_1(Len(u)))
    IN  unchecked_rotate_left(u, BITS(Len(u)) - m)

(***************************************************************************)
(* Rotation, uint/mod.rs.                                                  *)
(***************************************************************************)
uint_unchecked_rotate_left(u, n) ==
    IF n = 0 THEN u
    ELSE LET digit_shift == (n \div DigitBITS) % Len(u)
             shift == n % DigitBITS
             rotated == rotate_digits_left(u, digit_shift)
         IN  IF shift > 0 THEN rotate_carry_loop(rotated, 0, 0, shift) ELSE rotated

uint_rotate_left(u, n) == uint_unchecked_rotate_left(u, bitand(n, BITS_MINUS_1(Len(u))))

uint_rotate_right(u, n) ==
    LET m == bitand(n, BITS_MINUS_1(Len(u)))
    IN  uint_unchecked_rotate_left(u, BITS(Len(u)) - m)

(***************************************************************************)
(* Bit counting and tests, buint/mod.rs (uint/mod.rs holds the same loops).*)
(***************************************************************************)
RECURSIVE count_ones_loop(_, _, _)
count_ones_loop(u, i, ones) ==
    IF i < Len(u) THEN count_ones_loop(u, i + 1, ones + digit_count_ones(digit(u, i)))
    ELSE ones

count_ones(u) == count_ones_loop(u, 0, 0)

RECURSIVE count_zeros_loop(_, _, _)
count_zeros_loop(u, i, zeros) ==
    IF i < Len(u) THEN count_zeros_loop(u, i + 1, zeros + digit_count_zeros(digit(u, i)))
    ELSE zeros

\* The loop started at digit 1.
count_zeros_from_one(u) == count_zeros_loop(u, 1, 0)

count_zeros(u) == count_zeros_loop(u, 0, 0)

\* `i` is the loop variable before its decrement: the digit read is i - 1.
RECURSIVE leading_zeros_loop(_, _, _)
leading_zeros_loop(u, i, zeros) ==
    IF i > 0
    THEN LET d == digit(u, i - 1)
             z == zeros + digit_leading_zeros(d)
         IN  IF d # DigitMIN THEN z ELSE leading_zeros_loop(u, i - 1, z)
    ELSE zeros

\* The scan that stops after the most significant digit, whatever it holds.
leading_zeros_top_digit_only(u) == digit_leading_zeros(digit(u, Len(u) - 1))

leading_zeros(u) == leading_zeros_loop(u, Len(u), 0)

RECURSIVE trailing_zeros_loop(_, _, _)
trailing_zeros_loop(u, i, zeros) ==
    IF i < Len(u)
    THEN LET d == digit(u, i)
             z == zeros + digit_trailing_zeros(d)
         IN  IF d # DigitMIN THEN z ELSE trailing_zeros_loop(u, i + 1, z)
    ELSE zeros

trailing_zeros(u) == trailing_zeros_loop(u, 0, 0)

\* `i` is the loop variable before its decrement: the digit read is i - 1.
RECURSIVE leading_ones_loop(_, _, _)
leading_ones_loop(u, i, ones) ==
    IF i > 0
    THEN LET d == digit(u, i - 1)
             o == ones + digit_leading_ones(d)
         IN  IF d # DigitMAX THEN o ELSE leading_ones_loop(u, i - 1, o)
    ELSE ones

leading_ones(u) == leading_ones_loop(u, Len(u), 0)

RECURSIVE trailing_ones_loop(_, _, _)
trailing_ones_loop(u, i, ones) ==
    IF i < Len(u)
    THEN LET d == digit(u, i)
             o == ones + digit_trailing_ones(d)
         IN  IF d # DigitMAX THEN o ELSE trailing_ones_loop(u, i + 1, o)
    ELSE ones

\* The scan that stops after the first digit, full or not.
trailing_ones_first_digit_only(u) == digit_trailing_ones(digit(u, 0))

trailing_ones(u) == trailing_ones_loop(u, 0, 0)

RECURSIVE swap_bytes_loop(_, _, _)
swap_bytes_loop(u, i, uint) ==
    IF i < Len(u)
    THEN swap_bytes_loop(u, i + 1,
             set_digit(uint, i, digit_swap_bytes(digit(u, N_MINUS_1(Len(u)) - i))))
    ELSE uint

\* The loop without the reversal of the digit order.
RECURSIVE swap_bytes_loop_same_digit(_, _, _)
swap_bytes_loop_same_digit(u, i, uint) ==
    IF i < Len(u)
    THEN swap_bytes_loop_same_digit(u, i + 1,
             set_digit(uint, i, digit_swap_bytes(digit(u, i))))
    ELSE uint

swap_bytes_same_digit(u) == swap_bytes_loop_same_digit(u, 0, ZERO(Len(u)))

swap_bytes(u) == swap_bytes_loop(u, 0, ZERO(Len(u)))

RECURSIVE reverse_bits_loop(_, _, _)
reverse_bits_loop(u, i, uint) ==
    IF i < Len(u)
    THEN reverse_bits_loop(u, i + 1,
             set_digit(uint, i, digit_reverse_bits(digit(u, N_MINUS_1(Len(u)) - i))))
    ELSE uint

\* The loop that reverses the digit order and leaves each digit as it is.
RECURSIVE reverse_bits_loop_digit_order_only(_, _, _)
reverse_bits_loop_digit_order_only(u, i, uint) ==
    IF i < Len(u)
    THEN reverse_bits_loop_digit_order_only(u, i + 1,
             set_digit(uint, i, digit(u, N_MINUS_1(Len(u)) - i)))
    ELSE uint

reverse_bits_digit_order_only(u) == reverse_bits_loop_digit_order_only(u, 0, ZERO(Len(u)))

reverse_bits(u) == reverse_bits_loop(u, 0, ZERO(Len(u)))

RECURSIVE is_zero_loop(_, _)
is_zero_loop(u, i) ==
    IF i < Len(u) THEN (IF digit(u, i) # 0 THEN FALSE ELSE is_zero_loop(u, i + 1))
    ELSE TRUE

is_zero(u) == is_zero_loop(u, 0)

RECURSIVE is_power_of_two_loop(_, _, _)
is_power_of_two_loop(u, i, ones) ==
    IF i < Len(u)
    THEN LET o == ones + digit_count_ones(digit(u, i))
         IN  IF o > 1 THEN FALSE ELSE is_power_of_two_loop(u, i + 1, o)
    ELSE ones = 1

\* The test that looks for a digit with one set bit and never adds up.
is_power_of_two_per_digit(u) ==
    \E i \in 0 .. Len(u) - 1 : digit_count_ones(digit(u, i)) = 1

is_power_of_two(u) == is_power_of_two_loop(u, 0, 0)

RECURSIVE last_digit_index_loop(_, _, _)
last_digit_index_loop(u, i, index) ==
    IF i < Len(u)
    THEN last_digit_index_loop(u, i + 1, IF digit(u, i) # 0 THEN i ELSE index)
    ELSE index

last_digit_index(u) == last_digit_index_loop(u, 1, 0)

bits(u) == BITS(Len(u)) - leading_zeros(u)

\* bit: the digit `index >> BIT_SHIFT` is read with a bounds check, so an
\* index of BITS or more panics.
bit_low_digit_only(u, index) ==
    IF index \div DigitBITS >= Len(u) THEN [panic |-> TRUE, val |-> FALSE]
    ELSE [panic |-> FALSE,
          val |-> bitand(digit(u, 0),
                         digit_shl(1, bitand(index, DigitBITS_MINUS_1))) # 0]

bit(u, index) ==
    LET i == index \div DigitBITS
    IN  IF i >= Len(u) THEN [panic |-> TRUE, val |-> FALSE]
        ELSE [panic |-> FALSE,
              val |-> bitand(digit(u, i),
                             digit_shl(1, bitand(index, DigitBITS_MINUS_1))) # 0]

\* power_of_two with the digit index reduced modulo N instead of checked.
power_of_two_wrapping_index(c, power) ==
    [panic |-> FALSE,
     val |-> set_digit(ZERO(c), (power \div DigitBITS) % c,
                       digit_shl(1, bitand(power, DigitBITS - 1)))]

\* power_of_two: the index `power >> BIT_SHIFT` is bounds-checked, so a power
\* of BITS or more panics.
power_of_two(c, power) ==
    LET index == power \div DigitBITS
    IN  IF index >= c THEN [panic |-> TRUE, val |-> ZERO(c)]
        ELSE [panic |-> FALSE,
              val |-> set_digit(ZERO(c), index,
                                digit_shl(1, bitand(power, DigitBITS - 1)))]

(***************************************************************************)
(* Options: Some(v) and None.                                              *)
(***************************************************************************)
Some(v) == [some |-> TRUE, val |-> v]

None(c) == [some |-> FALSE, val |-> ZERO(c)]

(***************************************************************************)
(* Next power of two, uint/mod.rs and buint/mod.rs.                        *)
(***************************************************************************)
\* The version that reports overflow whenever the top bit of the highest
\* nonzero digit is set, wherever that digit lies.
checked_next_power_of_two_no_carry_digit(u) ==
    IF is_power_of_two(u) THEN Some(u)
    ELSE LET last_set_digit_index == last_digit_index(u)
             lz == digit_leading_zeros(digit(u, last_set_digit_index))
         IN  IF lz = 0 THEN None(Len(u))
             ELSE Some(set_digit(ZERO(Len(u)), last_set_digit_index,
                                 digit_shl(1, DigitBITS - lz)))

checked_next_power_of_two(u) ==
    IF is_power_of_two(u) THEN Some(u)
    ELSE LET last_set_digit_index == last_digit_index(u)
             lz == digit_leading_zeros(digit(u, last_set_digit_index))
         IN  IF lz = 0
             THEN IF last_set_digit_index = N_MINUS_1(Len(u))
                  THEN None(Len(u))
                  ELSE Some(set_digit(ZERO(Len(u)), last_set_digit_index + 1, 1))
             ELSE Some(set_digit(ZERO(Len(u)), last_set_digit_index,
                                 digit_shl(1, DigitBITS - lz)))

wrapping_next_power_of_two(u) ==
    LET c == checked_next_power_of_two(u)
    IN  IF c.some THEN c.val ELSE ZERO(Len(u))

\* option_expect!: the value of Some, a panic on None.
option_expect(o) == [panic |-> ~o.some, val |-> o.val]

\* The plain method compiled as the wrapping one in both build modes.
next_power_of_two_always_wrapping(debug, u) ==
    [panic |-> FALSE, val |-> wrapping_next_power_of_two(u)]

next_power_of_two(debug, u) ==
    IF debug THEN option_expect(checked_next_power_of_two(u))
    ELSE [panic |-> FALSE, val |-> wrapping_next_power_of_two(u)]

(***************************************************************************)
(* Exponentiation.  buint/mod.rs holds `pow`; checked_pow and wrapping_pow *)
(* live in the crate's checked and wrapping modules and are modelled by    *)
(* their contract: the exact power when it fits, its low BITS bits         *)
(* otherwise.                                                              *)
(***************************************************************************)
\* The digit array of the value v (v < 2^BITS).
RECURSIVE from_value_loop(_, _, _)
from_value_loop(c, v, acc) ==
    IF Len(acc) = c THEN acc
    ELSE from_value_loop(c, v \div DigitBASE, Append(acc, v % DigitBASE))

from_value(c, v) == from_value_loop(c, v, <<>>)

\* base^e, or -1 once a partial product no longer fits in w bits
RECURSIVE PowFits(_, _, _)
PowFits(base, e, w) ==
    IF e = 0 THEN 1
    ELSE LET r == PowFits(base, e - 1, w)
         IN  IF r < 0 \/ r * base >= Pow2(w) THEN -1 ELSE r * base

\* base^e mod 2^w
RECURSIVE PowMod(_, _, _)
PowMod(base, e, w) ==
    IF e = 0 THEN 1 % Pow2(w) ELSE (PowMod(base, e - 1, w) * base) % Pow2(w)

checked_pow(u, exp) ==
    LET r == PowFits(Value(u), exp, BITS(Len(u)))
    IN  IF r < 0 THEN None(Len(u)) ELSE Some(from_value(Len(u), r))

wrapping_pow(u, exp) == from_value(Len(u), PowMod(Value(u), exp, BITS(Len(u))))

pow(debug, u, exp) ==
    IF debug THEN option_expect(checked_pow(u, exp))
    ELSE [panic |-> FALSE, val |-> wrapping_pow(u, exp)]

(***************************************************************************)
(* Shifts of uint/mod.rs, as gcd calls them.                               *)
(***************************************************************************)
\* out = ZERO with u.digits[0 .. N - digit_shift) copied to out[digit_shift ..)
shl_copy(u, digit_shift) ==
    [k \in 1 .. Len(u) |->
        IF k - 1 >= digit_shift THEN digit(u, k - 1 - digit_shift) ELSE 0]

\* out = ZERO with u.digits[digit_shift .. N) copied to out[0 ..)
shr_copy(u, digit_shift) ==
    [k \in 1 .. Len(u) |->
        IF k - 1 < Len(u) - digit_shift THEN digit(u, k - 1 + digit_shift) ELSE 0]

\* The carry loop of uint::unchecked_shl and what follows it.
RECURSIVE uint_shl_loop(_, _, _, _, _)
uint_shl_loop(out0, i, carry, last_index, shift) ==
    IF i < Len(out0)
    THEN LET d == digit(out0, i)
             carry_shift == DigitBITS - shift
             new_carry == digit_shr(d, carry_shift)
             new_digit == bitor(digit_shl(d, shift), carry)
         IN  uint_shl_loop(set_digit(out0, i, new_digit), i + 1, new_carry,
                           IF new_digit # 0 THEN i ELSE last_index, shift)
    ELSE IF carry # 0 /\ last_index + 1 < Len(out0)
         THEN set_digit(out0, last_index + 1, carry)
         ELSE out0

uint_unchecked_shl(u, rhs) ==
    IF rhs = 0 THEN u
    ELSE LET digit_shift == rhs \div DigitBITS
             shift == bitand(rhs, DigitBITS_MINUS_1)
             copied == shl_copy(u, digit_shift)
         IN  IF shift > 0 THEN uint_shl_loop(copied, digit_shift, 0, digit_shift, shift)
             ELSE copied

\* The borrow loop of uint::unchecked_shr: digit N_MINUS_1 - i, for i upwards.
RECURSIVE uint_shr_loop(_, _, _, _)
uint_shr_loop(out0, i, borrow, shift) ==
    IF i < Len(out0)
    THEN LET idx == N_MINUS_1(Len(out0)) - i
             d == digit(out0, idx)
             borrow_shift == DigitBITS - shift
             new_borrow == digit_shl(d, borrow_shift)
             new_digit == bitor(digit_shr(d, shift), borrow)
         IN  uint_shr_loop(set_digit(out0, idx, new_digit), i + 1, new_borrow, shift)
    ELSE out0

uint_unchecked_shr(u, rhs) ==
    IF rhs = 0 THEN u
    ELSE LET digit_shift == rhs \div DigitBITS
             shift == bitand(rhs, DigitBITS_MINUS_1)
             copied == shr_copy(u, digit_shift)
         IN  IF shift > 0 THEN uint_shr_loop(copied, digit_shift, 0, shift)
             ELSE copied

(***************************************************************************)
(* Shifts of buint/mod.rs.  They are unsafe fns: the caller passes an      *)
(* amount below BITS.                                                      *)
(***************************************************************************)
\* The carry loop of buint::unchecked_shl.
RECURSIVE unchecked_shl_loop(_, _, _, _)
unchecked_shl_loop(out0, i, carry, bit_shift) ==
    IF i < Len(out0)
    THEN LET current_digit == digit(out0, i)
             carry_shift == DigitBITS - bit_shift
         IN  unchecked_shl_loop(
                 set_digit(out0, i, bitor(digit_shl(current_digit, bit_shift), carry)),
                 i + 1, digit_shr(current_digit, carry_shift), bit_shift)
    ELSE out0

\* The shift that forgets the bits carried from one digit to the next.
unchecked_shl_no_carry(u, rhs) ==
    LET digit_shift == rhs \div DigitBITS
        bit_shift == bitand(rhs, DigitBITS_MINUS_1)
    IN  [k \in 1 .. Len(u) |-> digit_shl(shl_copy(u, digit_shift)[k], bit_shift)]

unchecked_shl(u, rhs) ==
    LET digit_shift == rhs \div DigitBITS
        bit_shift == bitand(rhs, DigitBITS_MINUS_1)
        copied == shl_copy(u, digit_shift)
    IN  IF bit_shift # 0 THEN unchecked_shl_loop(copied, digit_shift, 0, bit_shift)
        ELSE copied

\* out = [PAD; N] with u.digits[digit_shift .. N) copied to out[0 ..)
shr_pad_copy(u, digit_shift, PAD) ==
    [k \in 1 .. Len(u) |->
        IF k - 1 < Len(u) - digit_shift THEN digit(u, k - 1 + digit_shift) ELSE PAD]

\* The carry loop of unchecked_shr_pad; `i` is the loop variable before its
\* decrement.
RECURSIVE unchecked_shr_pad_loop(_, _, _, _)
unchecked_shr_pad_loop(out0, i, carry, bit_shift) ==
    IF i > 0
    THEN LET current_digit == digit(out0, i - 1)
             carry_shift == DigitBITS - bit_shift
         IN  unchecked_shr_pad_loop(
                 set_digit(out0, i - 1, bitor(digit_shr(current_digit, bit_shift), carry)),
                 i - 1, digit_shl(current_digit, carry_shift), bit_shift)
    ELSE out0

\* The shift that pads whole digits only.
unchecked_shr_pad_whole_digits(u, rhs, PAD) ==
    LET digit_shift == rhs \div DigitBITS
        bit_shift == bitand(rhs, DigitBITS_MINUS_1)
        num_copies == Len(u) - digit_shift
        copied == shr_pad_copy(u, digit_shift, PAD)
    IN  IF bit_shift # 0 THEN unchecked_shr_pad_loop(copied, num_copies, 0, bit_shift)
        ELSE copied

unchecked_shr_pad(u, rhs, PAD) ==
    LET digit_shift == rhs \div DigitBITS
        bit_shift == bitand(rhs, DigitBITS_MINUS_1)
        num_copies == Len(u) - digit_shift
        copied == shr_pad_copy(u, digit_shift, PAD)
    IN  IF bit_shift # 0
        THEN LET carry_shift == DigitBITS - bit_shift
                 shifted == unchecked_shr_pad_loop(copied, num_copies, 0, bit_shift)
             IN  IF PAD = DigitMAX
                 THEN set_digit(shifted, num_copies - 1,
                          bitor(digit(shifted, num_copies - 1),
                                digit_shl(DigitMAX, carry_shift)))
                 ELSE shifted
        ELSE copied

unchecked_shr(u, rhs) == unchecked_shr_pad(u, rhs, DigitMIN)

(***************************************************************************)
(* Conversions to machine integers: to_mantissa (uint/mod.rs) and          *)
(* to_exp_type (buint/mod.rs).                                             *)
(***************************************************************************)
\* u64::BITS: the mantissa is a u64, which is the Digit type
U64_BITS == DigitBITS

\* the local fn min of to_mantissa
min(a, b) == IF a < b THEN a ELSE b

\* The loop of to_mantissa; `i` is the loop variable before its decrement,
\* `bts` the local `bits`, `acc` the local `out`.
RECURSIVE to_mantissa_loop(_, _, _, _, _)
to_mantissa_loop(u, i, bts, acc, out_bits) ==
    IF i > 0
    THEN LET digit_bits == bitand(bts - 1, DigitBITS_MINUS_1) + 1
             bits_want == min(U64_BITS - out_bits, digit_bits)
             shifted == IF bits_want # U64_BITS
                        THEN (acc * Pow2(bits_want)) % Pow2(U64_BITS)
                        ELSE acc
             d0 == digit_shr(digit(u, i - 1), digit_bits - bits_want)
             acc1 == bitor(shifted, d0)
         IN  IF out_bits + bits_want = U64_BITS
             THEN acc1
             ELSE to_mantissa_loop(u, i - 1, bts - bits_want, acc1, out_bits + bits_want)
    ELSE acc

\* The conversion that stops after the top digit.
to_mantissa_top_digit_only(u) ==
    IF bits(u) <= DigitBITS THEN digit(u, 0)
    ELSE digit(u, last_digit_index(u))

\* N = 0 returns 0 before anything else; the model has N >= 1
to_mantissa(u) ==
    IF bits(u) <= DigitBITS THEN digit(u, 0)
    ELSE to_mantissa_loop(u, last_digit_index(u) + 1, bits(u), 0, 0)

\* The loop of to_exp_type; a digit is cast to ExpType, then shifted in it.
RECURSIVE to_exp_type_loop(_, _, _, _, _)
to_exp_type_loop(u, i, last_index, acc, EXP_BITS) ==
    IF i <= last_index
    THEN to_exp_type_loop(u, i + 1, last_index,
             bitor(acc, ((digit(u, i) % Pow2(EXP_BITS)) * Pow2(i * DigitBITS))
                            % Pow2(EXP_BITS)),
             EXP_BITS)
    ELSE acc

\* to_exp_type for an ExpType of EXP_BITS bits
to_exp_type(u, EXP_BITS) ==
    LET last_index == last_digit_index(u)
    IN  IF digit(u, last_index) = 0 THEN Some(0)
        ELSE IF last_index >= EXP_BITS \div DigitBITS THEN [some |-> FALSE, val |-> 0]
        ELSE Some(to_exp_type_loop(u, 0, last_index, 0, EXP_BITS))

(***************************************************************************)
(* Comparison and wrapping subtraction: the crate's cmp and wrapping       *)
(* modules, modelled by their contract (most significant digit first;      *)
(* ripple borrow, the final borrow discarded).                             *)
(***************************************************************************)
\* `i` is the number of digits still to compare, from the top.
RECURSIVE cmp_loop(_, _, _)
cmp_loop(a, b, i) ==
    IF i = 0 THEN "Equal"
    ELSE IF digit(a, i - 1) > digit(b, i - 1) THEN "Greater"
    ELSE IF digit(a, i - 1) < digit(b, i - 1) THEN "Less"
    ELSE cmp_loop(a, b, i - 1)

cmp(a, b) == cmp_loop(a, b, Len(a))

RECURSIVE wrapping_sub_loop(_, _, _, _, _)
wrapping_sub_loop(a, b, i, borrow, acc) ==
    IF i < Len(a)
    THEN LET d == digit(a, i) - digit(b, i) - borrow
         IN  wrapping_sub_loop(a, b, i + 1, IF d < 0 THEN 1 ELSE 0,
                               Append(acc, IF d < 0 THEN d + DigitBASE ELSE d))
    ELSE acc

wrapping_sub(a, b) == wrapping_sub_loop(a, b, 0, 0, <<>>)

(***************************************************************************)
(* gcd, uint/mod.rs.                                                       *)
(***************************************************************************)
\* One pass of the loop body up to the subtraction: order the pair, subtract.
\* The step that subtracts without ordering the pair first.
gcd_step_no_swap(u, v) == [u |-> u, v |-> wrapping_sub(v, u)]

gcd_step(u, v) ==
    LET swap == cmp(u, v) = "Greater"
        u1 == IF swap THEN v ELSE u
        v1 == IF swap THEN u ELSE v
    IN  [u |-> u1, v |-> wrapping_sub(v1, u1)]

RECURSIVE gcd_loop(_, _, _)
gcd_loop(u, v, k) ==
    LET s == gcd_step(u, v)
    IN  IF is_zero(s.v) THEN uint_unchecked_shl(s.u, k)
        ELSE gcd_loop(s.u, uint_unchecked_shr(s.v, trailing_zeros(s.v)), k)

\* gcd whose first early return hands back the zero operand itself.
gcd_zero_returns_self(a, b) ==
    IF is_zero(a) THEN a
    ELSE IF is_zero(b) THEN a
    ELSE LET i == trailing_zeros(a)
             j == trailing_zeros(b)
         IN  gcd_loop(uint_unchecked_shr(a, i), uint_unchecked_shr(b, j),
                      IF i > j THEN j ELSE i)

\* gcd that returns the odd part and forgets the common power of two.
gcd_no_common_shift(a, b) ==
    IF is_zero(a) THEN b
    ELSE IF is_zero(b) THEN a
    ELSE gcd_loop(uint_unchecked_shr(a, trailing_zeros(a)),
                  uint_unchecked_shr(b, trailing_zeros(b)), 0)

\* gcd that keeps the power of two of its first operand.
gcd_first_shift(a, b) ==
    IF is_zero(a) THEN b
    ELSE IF is_zero(b) THEN a
    ELSE gcd_loop(uint_unchecked_shr(a, trailing_zeros(a)),
                  uint_unchecked_shr(b, trailing_zeros(b)),
                  trailing_zeros(a))

gcd(a, b) ==
    IF is_zero(a) THEN b
    ELSE IF is_zero(b) THEN a
    ELSE LET i == trailing_zeros(a)
             u == uint_unchecked_shr(a, i)
             j == trailing_zeros(b)
             v == uint_unchecked_shr(b, j)
             k == IF i > j THEN j ELSE i
         IN  gcd_loop(u, v, k)

(***************************************************************************)
(* BInt<N>: the two's-complement reading of the bits of a BUint<N>.  A     *)
(* BInt is modelled by its bits.  The sign test and the checked            *)
(* operations are stated by their contract: the exact result when it is    *)
(* representable, None otherwise.                                          *)
(***************************************************************************)
\* BInt::MIN: only the sign bit set
BInt_MIN(N) == set_digit(ZERO(N), N - 1, digit_shl(1, DigitBITS - 1))

\* BInt::MAX: every bit but the sign bit set
BInt_MAX(N) ==
    LET digits == from_digits_all(DigitMAX, N)
    IN  set_digit(digits, N - 1, digit_shr(digit(digits, N - 1), 1))

\* NEG_ONE .. NEG_TEN are declared
NegConstCount == 10

\* The constant that subtracts num instead of num - 1.
neg_const_minus_num(c, num) ==
    LET u == MAX(c)
    IN  set_digit(u, 0, digit(u, 0) - num)

\* neg_const!: NEG_num of BInt<c>; the subtraction is on the low digit alone
neg_const(c, num) ==
    LET u == MAX(c)
    IN  set_digit(u, 0, digit(u, 0) - (num - 1))

\* the sign is the top bit of the top digit
is_negative(u) == digit_shr(digit(u, Len(u) - 1), DigitBITS - 1) = 1

\* the signed value of the bits u
IntValue(u) == IF is_negative(u) THEN Value(u) - Pow2(BITS(Len(u))) ELSE Value(u)

\* Some(the bits of v) when v is representable in c digits, None otherwise
checked_from_int(c, v) ==
    IF v < IntValue(BInt_MIN(c)) \/ v > IntValue(BInt_MAX(c))
    THEN None(c)
    ELSE Some(from_value(c, (v + Pow2(BITS(c))) % Pow2(BITS(c))))

BInt_checked_add(a, b) == checked_from_int(Len(a), IntValue(a) + IntValue(b))

BInt_checked_sub(a, b) == checked_from_int(Len(a), IntValue(a) - IntValue(b))

BInt_checked_mul(a, b) == checked_from_int(Len(a), IntValue(a) * IntValue(b))

BInt_checked_neg(a) == checked_from_int(Len(a), 0 - IntValue(a))

BInt_checked_abs(a) ==
    checked_from_int(Len(a), IF IntValue(a) < 0 THEN 0 - IntValue(a) ELSE IntValue(a))

\* the magnitude of the power is computed first; it overflows as soon as it
\* needs more than BITS bits
BInt_checked_pow(a, exp) ==
    LET v == IntValue(a)
        m == PowFits(IF v < 0 THEN 0 - v ELSE v, exp, BITS(Len(a)))
    IN  IF m < 0 THEN None(Len(a))
        ELSE checked_from_int(Len(a), IF v < 0 /\ exp % 2 = 1 THEN 0 - m ELSE m)

\* The clamp that ignores the direction of the overflow.
saturating_add_always_max(a, rhs) ==
    LET r == BInt_checked_add(a, rhs)
    IN  IF r.some THEN r.val ELSE BInt_MAX(Len(a))

saturating_add(a, rhs) ==
    LET r == BInt_checked_add(a, rhs)
    IN  IF r.some THEN r.val
        ELSE IF is_negative(a) THEN BInt_MIN(Len(a)) ELSE BInt_MAX(Len(a))

\* The clamp chosen from the sign of rhs.
saturating_sub_clamp_by_rhs(a, rhs) ==
    LET r == BInt_checked_sub(a, rhs)
    IN  IF r.some THEN r.val
        ELSE IF is_negative(rhs) THEN BInt_MIN(Len(a)) ELSE BInt_MAX(Len(a))

saturating_sub(a, rhs) ==
    LET r == BInt_checked_sub(a, rhs)
    IN  IF r.some THEN r.val
        ELSE IF is_negative(a) THEN BInt_MIN(Len(a)) ELSE BInt_MAX(Len(a))

\* The clamp chosen from the sign of self alone.
saturating_mul_clamp_by_self(a, rhs) ==
    LET r == BInt_checked_mul(a, rhs)
    IN  IF r.some THEN r.val
        ELSE IF is_negative(a) THEN BInt_MIN(Len(a)) ELSE BInt_MAX(Len(a))

saturating_mul(a, rhs) ==
    LET r == BInt_checked_mul(a, rhs)
    IN  IF r.some THEN r.val
        ELSE IF is_negative(a) = is_negative(rhs)
             THEN BInt_MAX(Len(a)) ELSE BInt_MIN(Len(a))

\* The overflow that leaves MIN where it is.
saturating_neg_keeps_min(a) ==
    LET r == BInt_checked_neg(a)
    IN  IF r.some THEN r.val ELSE BInt_MIN(Len(a))

saturating_neg(a) ==
    LET r == BInt_checked_neg(a)
    IN  IF r.some THEN r.val ELSE BInt_MAX(Len(a))

saturating_abs(a) ==
    LET r == BInt_checked_abs(a)
    IN  IF r.some THEN r.val ELSE BInt_MAX(Len(a))

\* The clamp that ignores the parity of the exponent.
saturating_pow_ignores_parity(a, exp) ==
    LET r == BInt_checked_pow(a, exp)
    IN  IF r.some THEN r.val
        ELSE IF is_negative(a) THEN BInt_MIN(Len(a)) ELSE BInt_MAX(Len(a))

saturating_pow(a, exp) ==
    LET r == BInt_checked_pow(a, exp)
    IN  IF r.some THEN r.val
        ELSE IF is_negative(a) /\ bitand(exp, 1) # 0
             THEN BInt_MIN(Len(a)) ELSE BInt_MAX(Len(a))

(***************************************************************************)
(* The type aliases and the conversion U256 <-> U512 (big_conversion!).    *)
(***************************************************************************)
\* the digit counts of U256 and U512: $bits / 64
U256_N == 4
U512_N == 8

\* Digit::to_le_bytes: byte k of the digit, least significant first
digit_to_le_bytes(d) ==
    [k \in 1 .. DigitBYTES |-> (d \div Pow2((k - 1) * ByteBITS)) % ByteBASE]

\* Digit::from_le_bytes of the DigitBYTES bytes of b that start at index i
RECURSIVE digit_from_le_bytes(_, _, _)
digit_from_le_bytes(b, i, k) ==
    IF k >= DigitBYTES THEN 0
    ELSE b[i + k + 1] * Pow2(k * ByteBITS) + digit_from_le_bytes(b, i, k + 1)

\* value.to_le_bytes(): the bytes of each digit, then the arrays laid end to
\* end
to_le_bytes(u) ==
    LET bytes == [i \in 1 .. Len(u) |-> digit_to_le_bytes(digit(u, i - 1))]
    IN  [j \in 1 .. Len(u) * DigitBYTES |->
            bytes[((j - 1) \div DigitBYTES) + 1][((j - 1) % DigitBYTES) + 1]]

\* Self::from_digits of the digits read from the bytes
from_le_bytes(to_bytes) ==
    [i \in 1 .. Len(to_bytes) \div DigitBYTES |->
        digit_from_le_bytes(to_bytes, (i - 1) * DigitBYTES, 0)]

\* The conversion that copies the bytes to the high end of to_bytes.
U512_from_high_end(u) ==
    LET FROM_BYTES_LEN == BYTES(U256_N)
        TO_BYTES_LEN == BYTES(U512_N)
        from_bytes == to_le_bytes(u)
        to_bytes == [j \in 1 .. TO_BYTES_LEN |->
                        IF j > TO_BYTES_LEN - FROM_BYTES_LEN
                        THEN from_bytes[j - (TO_BYTES_LEN - FROM_BYTES_LEN)] ELSE 0]
    IN  from_le_bytes(to_bytes)

\* impl From<U256> for U512
U512_from(u) ==
    LET FROM_BYTES_LEN == BYTES(U256_N)
        TO_BYTES_LEN == BYTES(U512_N)
        from_bytes == to_le_bytes(u)
        to_bytes == [j \in 1 .. TO_BYTES_LEN |->
                        IF j <= FROM_BYTES_LEN THEN from_bytes[j] ELSE 0]
    IN  from_le_bytes(to_bytes)

Ok(v) == [ok |-> TRUE, val |-> v]

Err == [ok |-> FALSE, val |-> ZERO(U256_N)]

\* impl TryFrom<U512> for U256, by BTryFrom: the low digits when every
\* discarded digit is zero, an error otherwise
U256_try_from(w) ==
    IF \E i \in U256_N .. Len(w) - 1 : digit(w, i) # 0
    THEN Err
    ELSE Ok(SubSeq(w, 1, U256_N))

(***************************************************************************)
(* The state: one call and what it returned.                               *)
(***************************************************************************)
VARIABLES
    debug_assertions,   \* the build mode: cfg(debug_assertions)
    N,                  \* the const generic digit count of the type
    self,               \* the receiver
    other,              \* the second BUint operand
    n,                  \* the ExpType operand (shift amount, exponent, power)
    pc,                 \* "start", then the call chain made so far
    out,                \* the BUint returned (Some's payload for an Option)
    ret,                \* the ExpType returned
    res,                \* "-", "value", "Some", "None", "Ok", "Err", "true", "false", "panic"
    value,              \* the U512 operand of a narrowing, <<>> when there is none
    gcd_u,              \* gcd's local u at the head of its loop, or at its return
    gcd_v,              \* gcd's local v
    gcd_k,              \* gcd's local k
    shifts,             \* the amounts gcd's last step passed to unchecked_shr / unchecked_shl
    steps               \* the number of steps gcd has taken: its entry and its loop iterations

locals == <<gcd_u, gcd_v, gcd_k, shifts, steps>>

vars == <<debug_assertions, N, self, other, n, pc, out, ret, res, value, locals>>

args == <<debug_assertions, N, self, other, n, value, locals>>

DigitCounts == {c \in 1 .. MaxBits : BITS(c) <= MaxBits}

BUintSet(c) == [1 .. c -> Digits]

ShiftAmounts == 0 .. (MaxBits + (MaxBits \div 2))

\* the widths of ExpType tried: half a digit, a digit, two digits
ExpTypeWidths == {Pow2(e) : e \in BIT_SHIFT - 1 .. BIT_SHIFT + 1}

\* the high halves tried by a narrowing: at most one digit is not zero
HighHalves ==
    {set_digit(ZERO(U512_N - U256_N), i, d) : i \in 0 .. U512_N - U256_N - 1, d \in Digits}

\* A call has one receiver and either an ExpType operand, in either build
\* mode, or a second BUint operand; no two-operand method reads the build
\* mode.
Init ==
    /\ N \in DigitCounts
    /\ self \in BUintSet(N)
    /\ \/ other = ZERO(N) /\ n \in ShiftAmounts /\ debug_assertions \in BOOLEAN
       \/ /\ BITS(N) <= MaxPairBits
          /\ other \in BUintSet(N)
          /\ n = 0
          /\ debug_assertions = FALSE
    /\ pc = "start"
    /\ out = ZERO(N)
    /\ ret = 0
    /\ res = "-"
    /\ value = <<>>
    /\ gcd_u = ZERO(N)
    /\ gcd_v = ZERO(N)
    /\ gcd_k = 0
    /\ shifts = {}
    /\ steps = 0

\* x.rotate_left(n), buint
RotateLeft ==
    /\ pc = "start"
    /\ out' = rotate_left(self, n)
    /\ res' = "value"
    /\ pc' = "rotate_left"
    /\ UNCHANGED <<args, ret>>

\* x.rotate_right(n), or the chain x.rotate_left(n).rotate_right(n), buint
RotateRight ==
    \/ /\ pc = "start"
       /\ out' = rotate_right(self, n)
       /\ res' = "value"
       /\ pc' = "rotate_right"
       /\ UNCHANGED <<args, ret>>
    \/ /\ pc = "rotate_left"
       /\ out' = rotate_right(out, n)
       /\ pc' = "rotate_left.rotate_right"
       /\ UNCHANGED <<args, ret, res>>

\* x.rotate_left(n), uint
UintRotateLeft ==
    /\ pc = "start"
    /\ out' = uint_rotate_left(self, n)
    /\ res' = "value"
    /\ pc' = "uint_rotate_left"
    /\ UNCHANGED <<args, ret>>

\* x.rotate_right(n), or the chain x.rotate_left(n).rotate_right(n), uint
UintRotateRight ==
    \/ /\ pc = "start"
       /\ out' = uint_rotate_right(self, n)
       /\ res' = "value"
       /\ pc' = "uint_rotate_right"
       /\ UNCHANGED <<args, ret>>
    \/ /\ pc = "uint_rotate_left"
       /\ out' = uint_rotate_right(out, n)
       /\ pc' = "uint_rotate_left.rotate_right"
       /\ UNCHANGED <<args, ret, res>>

\* a.gcd(b)
Gcd ==
    /\ pc = "start"
    /\ out' = gcd(self, other)
    /\ res' = "value"
    /\ pc' = "gcd"
    /\ UNCHANGED <<args, ret>>

\* x.count_ones()
CountOnes ==
    /\ pc = "start"
    /\ ret' = count_ones(self)
    /\ res' = "value"
    /\ pc' = "count_ones"
    /\ UNCHANGED <<args, out>>

\* x.count_zeros()
CountZeros ==
    /\ pc = "start"
    /\ ret' = count_zeros(self)
    /\ res' = "value"
    /\ pc' = "count_zeros"
    /\ UNCHANGED <<args, out>>

\* x.leading_zeros()
LeadingZeros ==
    /\ pc = "start"
    /\ ret' = leading_zeros(self)
    /\ res' = "value"
    /\ pc' = "leading_zeros"
    /\ UNCHANGED <<args, out>>

\* x.is_power_of_two()
IsPowerOfTwo ==
    /\ pc = "start"
    /\ res' = IF is_power_of_two(self) THEN "true" ELSE "false"
    /\ pc' = "is_power_of_two"
    /\ UNCHANGED <<args, out, ret>>

\* x.checked_next_power_of_two()
CheckedNextPowerOfTwo ==
    /\ pc = "start"
    /\ LET r == checked_next_power_of_two(self)
       IN  /\ res' = IF r.some THEN "Some" ELSE "None"
           /\ out' = r.val
    /\ pc' = "checked_next_power_of_two"
    /\ UNCHANGED <<args, ret>>

\* x.wrapping_next_power_of_two()
WrappingNextPowerOfTwo ==
    /\ pc = "start"
    /\ out' = wrapping_next_power_of_two(self)
    /\ res' = "value"
    /\ pc' = "wrapping_next_power_of_two"
    /\ UNCHANGED <<args, ret>>

\* x.next_power_of_two(), as the build mode compiles it
NextPowerOfTwo ==
    /\ pc = "start"
    /\ LET r == next_power_of_two(debug_assertions, self)
       IN  /\ res' = IF r.panic THEN "panic" ELSE "value"
           /\ out' = r.val
    /\ pc' = "next_power_of_two"
    /\ UNCHANGED <<args, ret>>

\* x.pow(n), as the build mode compiles it
PowCall ==
    /\ pc = "start"
    /\ LET r == pow(debug_assertions, self, n)
       IN  /\ res' = IF r.panic THEN "panic" ELSE "value"
           /\ out' = r.val
    /\ pc' = "pow"
    /\ UNCHANGED <<args, ret>>

\* BUint::<N>::power_of_two(n)
PowerOfTwo ==
    /\ pc = "start"
    /\ LET r == power_of_two(N, n)
       IN  /\ res' = IF r.panic THEN "panic" ELSE "value"
           /\ out' = r.val
    /\ pc' = "power_of_two"
    /\ UNCHANGED <<args, ret>>

\* x.bits(), or the chain BUint::power_of_two(n).bits()
Bits ==
    \/ /\ pc = "start"
       /\ ret' = bits(self)
       /\ res' = "value"
       /\ pc' = "bits"
       /\ UNCHANGED <<args, out>>
    \/ /\ pc = "power_of_two"
       /\ res = "value"
       /\ ret' = bits(out)
       /\ pc' = "power_of_two.bits"
       /\ UNCHANGED <<args, out, res>>

\* x.bit(n)
Bit ==
    /\ pc = "start"
    /\ LET r == bit(self, n)
       IN  res' = IF r.panic THEN "panic" ELSE IF r.val THEN "true" ELSE "false"
    /\ pc' = "bit"
    /\ UNCHANGED <<args, out, ret>>

\* x.trailing_zeros()
TrailingZeros ==
    /\ pc = "start"
    /\ ret' = trailing_zeros(self)
    /\ res' = "value"
    /\ pc' = "trailing_zeros"
    /\ UNCHANGED <<args, out>>

\* x.leading_ones()
LeadingOnes ==
    /\ pc = "start"
    /\ ret' = leading_ones(self)
    /\ res' = "value"
    /\ pc' = "leading_ones"
    /\ UNCHANGED <<args, out>>

\* x.trailing_ones()
TrailingOnes ==
    /\ pc = "start"
    /\ ret' = trailing_ones(self)
    /\ res' = "value"
    /\ pc' = "trailing_ones"
    /\ UNCHANGED <<args, out>>

\* x.swap_bytes()
SwapBytes ==
    /\ pc = "start"
    /\ out' = swap_bytes(self)
    /\ res' = "value"
    /\ pc' = "swap_bytes"
    /\ UNCHANGED <<args, ret>>

\* x.reverse_bits()
ReverseBits ==
    /\ pc = "start"
    /\ out' = reverse_bits(self)
    /\ res' = "value"
    /\ pc' = "reverse_bits"
    /\ UNCHANGED <<args, ret>>

\* a.saturating_add(b), self and other read as BInt<N>
SaturatingAdd ==
    /\ pc = "start"
    /\ out' = saturating_add(self, other)
    /\ res' = "value"
    /\ pc' = "saturating_add"
    /\ UNCHANGED <<args, ret>>

\* a.saturating_sub(b), self and other read as BInt<N>
SaturatingSub ==
    /\ pc = "start"
    /\ out' = saturating_sub(self, other)
    /\ res' = "value"
    /\ pc' = "saturating_sub"
    /\ UNCHANGED <<args, ret>>

\* a.saturating_mul(b), self and other read as BInt<N>
SaturatingMul ==
    /\ pc = "start"
    /\ out' = saturating_mul(self, other)
    /\ res' = "value"
    /\ pc' = "saturating_mul"
    /\ UNCHANGED <<args, ret>>

\* a.saturating_neg(), self and other read as BInt<N>
SaturatingNeg ==
    /\ pc = "start"
    /\ out' = saturating_neg(self)
    /\ res' = "value"
    /\ pc' = "saturating_neg"
    /\ UNCHANGED <<args, ret>>

\* a.saturating_abs(), self and other read as BInt<N>
SaturatingAbs ==
    /\ pc = "start"
    /\ out' = saturating_abs(self)
    /\ res' = "value"
    /\ pc' = "saturating_abs"
    /\ UNCHANGED <<args, ret>>

\* a.saturating_pow(e), self and other read as BInt<N>
SaturatingPow ==
    /\ pc = "start"
    /\ out' = saturating_pow(self, n)
    /\ res' = "value"
    /\ pc' = "saturating_pow"
    /\ UNCHANGED <<args, ret>>

\* BInt::<N>::MIN, BInt::<N>::MAX, and BInt::<N>::NEG_n for the declared n
\* whose n - 1 is a Digit
BIntConsts ==
    \/ /\ pc = "start"
       /\ out' = BInt_MIN(N)
       /\ res' = "value"
       /\ pc' = "MIN"
       /\ UNCHANGED <<args, ret>>
    \/ /\ pc = "start"
       /\ out' = BInt_MAX(N)
       /\ res' = "value"
       /\ pc' = "MAX"
       /\ UNCHANGED <<args, ret>>
    \/ /\ pc = "start"
       /\ n \in 1 .. NegConstCount
       /\ n - 1 <= DigitMAX
       /\ out' = neg_const(N, n)
       /\ res' = "value"
       /\ pc' = "NEG"
       /\ UNCHANGED <<args, ret>>

\* U512::from(x) for a U256 x
From ==
    /\ pc = "start"
    /\ N = U256_N
    /\ out' = U512_from(self)
    /\ res' = "value"
    /\ pc' = "from"
    /\ UNCHANGED <<args, ret>>

\* U256::try_from(w) for a U512 w: the widened x, or x with a high half put
\* on top
TryFrom ==
    \/ /\ pc = "from"
       /\ value' = out
       /\ LET r == U256_try_from(out)
          IN  out' = r.val /\ res' = IF r.ok THEN "Ok" ELSE "Err"
       /\ pc' = "from.try_from"
       /\ UNCHANGED <<debug_assertions, N, self, other, n, ret, locals>>
    \/ /\ pc = "start"
       /\ N = U256_N
       /\ \E hi \in HighHalves :
              /\ value' = self \o hi
              /\ LET r == U256_try_from(self \o hi)
                 IN  out' = r.val /\ res' = IF r.ok THEN "Ok" ELSE "Err"
       /\ pc' = "try_from"
       /\ UNCHANGED <<debug_assertions, N, self, other, n, ret, locals>>

\* unchecked_shl(x, n), buint, for an amount the caller keeps below BITS
UncheckedShl ==
    /\ pc = "start"
    /\ n < BITS(N)
    /\ out' = unchecked_shl(self, n)
    /\ res' = "value"
    /\ pc' = "unchecked_shl"
    /\ UNCHANGED <<args, ret>>

\* unchecked_shl(x, n), uint
UintUncheckedShl ==
    /\ pc = "start"
    /\ n < BITS(N)
    /\ out' = uint_unchecked_shl(self, n)
    /\ res' = "value"
    /\ pc' = "uint::unchecked_shl"
    /\ UNCHANGED <<args, ret>>

\* unchecked_shr(x, n), buint: unchecked_shr_pad with PAD = Digit::MIN
UncheckedShr ==
    /\ pc = "start"
    /\ n < BITS(N)
    /\ out' = unchecked_shr(self, n)
    /\ res' = "value"
    /\ pc' = "unchecked_shr"
    /\ UNCHANGED <<args, ret>>

\* unchecked_shr_pad::<N, {Digit::MAX}>(x, n)
UncheckedShrPad ==
    /\ pc = "start"
    /\ n < BITS(N)
    /\ out' = unchecked_shr_pad(self, n, DigitMAX)
    /\ res' = "value"
    /\ pc' = "unchecked_shr_pad::<MAX>"
    /\ UNCHANGED <<args, ret>>

\* x.to_mantissa()
ToMantissa ==
    /\ pc = "start"
    /\ ret' = to_mantissa(self)
    /\ res' = "value"
    /\ pc' = "to_mantissa"
    /\ UNCHANGED <<args, out>>

\* x.to_exp_type(), in a build whose ExpType is n bits wide
ToExpType ==
    /\ pc = "start"
    /\ n \in ExpTypeWidths
    /\ LET r == to_exp_type(self, n)
       IN  /\ ret' = r.val
           /\ res' = IF r.some THEN "Some" ELSE "None"
    /\ pc' = "to_exp_type"
    /\ UNCHANGED <<args, out>>

Next ==
    \/ RotateLeft
    \/ RotateRight
    \/ UintRotateLeft
    \/ UintRotateRight
    \/ Gcd
    \/ CountOnes
    \/ CountZeros
    \/ LeadingZeros
    \/ IsPowerOfTwo
    \/ CheckedNextPowerOfTwo
    \/ WrappingNextPowerOfTwo
    \/ NextPowerOfTwo
    \/ PowCall
    \/ PowerOfTwo
    \/ Bits
    \/ Bit
    \/ TrailingZeros
    \/ LeadingOnes
    \/ TrailingOnes
    \/ SwapBytes
    \/ ReverseBits
    \/ SaturatingAdd
    \/ SaturatingSub
    \/ SaturatingMul
    \/ SaturatingNeg
    \/ SaturatingAbs
    \/ SaturatingPow
    \/ BIntConsts
    \/ From
    \/ TryFrom
    \/ UncheckedShl
    \/ UintUncheckedShl
    \/ UncheckedShr
    \/ UncheckedShrPad
    \/ ToMantissa
    \/ ToExpType

Spec == Init /\ [][Next]_vars

(***************************************************************************)
(* gcd, one loop iteration at a time.                                      *)
(***************************************************************************)
\* before the call: no argument is chosen yet
InitGcd ==
    /\ debug_assertions = FALSE
    /\ N = 1
    /\ self = ZERO(1)
    /\ other = ZERO(1)
    /\ n = 0
    /\ pc = "gcd.call"
    /\ out = ZERO(1)
    /\ ret = 0
    /\ res = "-"
    /\ value = <<>>
    /\ gcd_u = ZERO(1)
    /\ gcd_v = ZERO(1)
    /\ gcd_k = 0
    /\ shifts = {}
    /\ steps = 0

\* a.gcd(b) up to the head of its loop, for any two values a and b of a
\* type: the early returns, the two shifts that make u and v odd, and k
GcdEnter ==
    /\ pc = "gcd.call"
    /\ \E c \in {d \in DigitCounts : BITS(d) <= MaxPairBits} :
         \E a \in BUintSet(c), b \in BUintSet(c) :
           /\ N' = c
           /\ self' = a
           /\ other' = b
           /\ IF is_zero(a) \/ is_zero(b)
              THEN /\ out' = IF is_zero(a) THEN b ELSE a
                   /\ gcd_u' = IF is_zero(a) THEN b ELSE a
                   /\ gcd_v' = IF is_zero(a) THEN a ELSE b
                   /\ gcd_k' = 0
                   /\ shifts' = {}
                   /\ pc' = "gcd.return"
              ELSE LET i == trailing_zeros(a)
                       j == trailing_zeros(b)
                   IN  /\ gcd_u' = uint_unchecked_shr(a, i)
                       /\ gcd_v' = uint_unchecked_shr(b, j)
                       /\ gcd_k' = IF i > j THEN j ELSE i
                       /\ shifts' = {i, j}
                       /\ out' = ZERO(c)
                       /\ pc' = "gcd.loop"
    /\ res' = "value"
    /\ steps' = steps + 1
    /\ UNCHANGED <<debug_assertions, n, value, ret>>

\* gcd's loop takes at most MaxSteps iterations in the model
MaxSteps == 2 * MaxBits

\* one iteration of gcd's loop
GcdIter ==
    /\ pc = "gcd.loop"
    /\ steps < MaxSteps
    /\ steps' = steps + 1
    /\ LET s == gcd_step(gcd_u, gcd_v)
       IN  /\ gcd_u' = s.u
           /\ IF is_zero(s.v)
              THEN /\ gcd_v' = s.v
                   /\ out' = uint_unchecked_shl(s.u, gcd_k)
                   /\ shifts' = {gcd_k}
                   /\ pc' = "gcd.return"
              ELSE /\ gcd_v' = uint_unchecked_shr(s.v, trailing_zeros(s.v))
                   /\ out' = out
                   /\ shifts' = {trailing_zeros(s.v)}
                   /\ pc' = "gcd.loop"
    /\ UNCHANGED <<debug_assertions, N, self, other, n, value, ret, res, gcd_k>>

NextGcd ==
    \/ GcdEnter
    \/ GcdIter

\* what every step of gcd does to the step count
Step == pc # "gcd.return" /\ steps < MaxSteps /\ steps' = steps + 1

\* gcd is sequential code: a step that can be taken is taken.  Every step of
\* NextGcd is a Step and counts itself, so this is weak fairness of NextGcd.
SpecGcd == InitGcd /\ [][NextGcd]_vars /\ WF_steps(Step)

(***************************************************************************)
(* Reference arithmetic for the properties.                                *)
(***************************************************************************)
\* v rotated left by r positions within a word of w bits, 0 <= r < w
RotlValue(v, r, w) == ((v * Pow2(r)) % Pow2(w)) + (v \div Pow2(w - r))

\* the number of set bits of the natural number v
RECURSIVE PopCount(_)
PopCount(v) == IF v = 0 THEN 0 ELSE (v % 2) + PopCount(v \div 2)

\* the smallest power of two that is >= x, searched upwards from p
RECURSIVE NextPow2From(_, _)
NextPow2From(x, p) == IF p >= x THEN p ELSE NextPow2From(x, 2 * p)

NextPow2(x) == NextPow2From(x, 1)

Min(a, b) == IF a < b THEN a ELSE b

(***************************************************************************)
(* C1.  rotate_left(x, n) is the left rotation of x by n mod BITS          *)
(* positions, for every digit count N, N = 3 included, and every n.        *)
(* The code masks n with BITS - 1, which is n mod BITS only when BITS is a *)
(* power of two: the statement fails for N = 3.                            *)
(***************************************************************************)
C1_RotateLeftModBits ==
    pc = "rotate_left" =>
        Value(out) = RotlValue(Value(self), n % BITS(N), BITS(N))

(***************************************************************************)
(* C2.  x.rotate_left(k).rotate_right(k) = x for every N, x and k, in both *)
(* generations of the code.                                                *)
(***************************************************************************)
C2_RotateRoundTrip ==
    pc \in {"rotate_left.rotate_right", "uint_rotate_left.rotate_right"} =>
        out = self

\* The round trip on a three-digit value, k a multiple of the digit width
\* and at least BITS, where the first rotation did move the value.
C2_Witness ==
    /\ pc = "rotate_left.rotate_right"
    /\ N = 3
    /\ n >= BITS(N)
    /\ n % DigitBITS = 0
    /\ rotate_left(self, n) # self
    /\ out = self

(***************************************************************************)
(* C3.  gcd(a, 0) = a and gcd(0, b) = b.                                   *)
(***************************************************************************)
C3_GcdZero ==
    pc = "gcd" =>
        /\ (Value(other) = 0 => out = self)
        /\ (Value(self) = 0 => out = other)

\* gcd(0, b) on three digits with b not zero.
C3_Witness ==
    /\ pc = "gcd"
    /\ N = 3
    /\ Value(self) = 0
    /\ Value(other) > DigitBASE
    /\ out = other

(***************************************************************************)
(* C4.  gcd(a, b) = gcd(b, a).                                             *)
(***************************************************************************)
C4_GcdCommutes ==
    pc = "gcd" => out = gcd(other, self)

\* A pair whose operands carry different powers of two, the receiver's larger.
C4_Witness ==
    /\ pc = "gcd"
    /\ N = 3
    /\ Value(self) # 0
    /\ Value(other) # 0
    /\ trailing_zeros(self) > trailing_zeros(other) + DigitBITS
    /\ out = gcd(other, self)

(***************************************************************************)
(* C5.  For nonzero a and b, gcd(a, b) is the greatest common divisor: it  *)
(* is not zero, divides both, and every common divisor divides it; it is   *)
(* 2^min(tz a, tz b) times the gcd of the odd parts.                       *)
(***************************************************************************)
C5_GcdIsGreatestCommonDivisor ==
    pc = "gcd" /\ Value(self) # 0 /\ Value(other) # 0 =>
        LET a == Value(self)
            b == Value(other)
            g == Value(out)
            k == Min(trailing_zeros(self), trailing_zeros(other))
        IN  /\ g # 0
            /\ a % g = 0
            /\ b % g = 0
            /\ \A d \in 1 .. Min(a, b) : (a % d = 0 /\ b % d = 0) => g % d = 0
            /\ g % Pow2(k) = 0
            /\ (g \div Pow2(k)) % 2 = 1

\* Two even operands of three digits with an odd common factor above one.
C5_Witness ==
    /\ pc = "gcd"
    /\ N = 3
    /\ Value(self) = 36
    /\ Value(other) = 60
    /\ Value(out) = 12

(***************************************************************************)
(* C6.  count_ones(x) + count_zeros(x) = BITS, and count_ones(x) is the    *)
(* number of set bits of the value.                                        *)
(***************************************************************************)
C6_CountOnesZeros ==
    /\ pc = "count_ones" =>
           /\ ret = PopCount(Value(self))
           /\ ret + count_zeros(self) = BITS(N)
    /\ pc = "count_zeros" =>
           count_ones(self) + ret = BITS(N)

\* A value with set and clear bits in every one of its three digits.
C6_Witness ==
    /\ pc = "count_zeros"
    /\ N = 3
    /\ \A i \in 0 .. N - 1 : digit(self, i) \notin {DigitMIN, DigitMAX}
    /\ ret > 0
    /\ ret < BITS(N)

(***************************************************************************)
(* C7.  checked_next_power_of_two(x) is Some(p), p the smallest power of   *)
(* two with p >= x, and None exactly when x > 2^(BITS-1).                  *)
(***************************************************************************)
C7_CheckedNextPowerOfTwo ==
    pc = "checked_next_power_of_two" =>
        LET x == Value(self)
        IN  /\ res = "None" <=> x > Pow2(BITS(N) - 1)
            /\ res = "Some" <=> x <= Pow2(BITS(N) - 1)
            /\ res = "Some" => Value(out) = NextPow2(x)

\* The highest nonzero digit has its top bit set and is not the last digit:
\* the answer is the lone bit of the next digit.
C7_Witness ==
    /\ pc = "checked_next_power_of_two"
    /\ N >= 3
    /\ ~is_power_of_two(self)
    /\ last_digit_index(self) = 1
    /\ digit_leading_zeros(digit(self, 1)) = 0
    /\ res = "Some"
    /\ out = set_digit(ZERO(N), 2, 1)

(***************************************************************************)
(* C8.  next_power_of_two and pow are chosen by the build mode alone: in   *)
(* debug mode each returns the value of its checked counterpart and panics *)
(* exactly when that is None; in release mode each returns its wrapping    *)
(* counterpart.  wrapping_next_power_of_two is ZERO exactly when the       *)
(* checked one is None, and the checked value otherwise.                   *)
(***************************************************************************)
C8_BuildModeSelects ==
    /\ pc = "next_power_of_two" =>
           LET c == checked_next_power_of_two(self)
           IN  IF debug_assertions
               THEN /\ res = "panic" <=> ~c.some
                    /\ c.some => res = "value" /\ out = c.val
               ELSE res = "value" /\ out = wrapping_next_power_of_two(self)
    /\ pc = "pow" =>
           LET c == checked_pow(self, n)
           IN  IF debug_assertions
               THEN /\ res = "panic" <=> ~c.some
                    /\ c.some => res = "value" /\ out = c.val
               ELSE res = "value" /\ out = wrapping_pow(self, n)
    /\ pc = "wrapping_next_power_of_two" =>
           LET c == checked_next_power_of_two(self)
           IN  /\ out = ZERO(N) <=> ~c.some
               /\ c.some => out = c.val

\* The debug build panics on a value above 2^(BITS-1).
C8_Witness ==
    /\ pc = "next_power_of_two"
    /\ debug_assertions
    /\ N = 2
    /\ Value(self) > Pow2(BITS(N) - 1)
    /\ res = "panic"

(***************************************************************************)
(* C9.  is_power_of_two(x) holds exactly when x = 2^k for some k < BITS,   *)
(* that is when exactly one bit is set across all digits.                  *)
(***************************************************************************)
C9_IsPowerOfTwo ==
    pc = "is_power_of_two" =>
        /\ res = "true" <=> \E k \in 0 .. BITS(N) - 1 : Value(self) = Pow2(k)
        /\ res = "true" <=> PopCount(Value(self)) = 1
        /\ res \in {"true", "false"}

\* Two set bits, each alone in its digit.
C9_Witness ==
    /\ pc = "is_power_of_two"
    /\ N = 3
    /\ digit_count_ones(digit(self, 0)) = 1
    /\ digit(self, 1) = 0
    /\ digit_count_ones(digit(self, 2)) = 1
    /\ res = "false"

(***************************************************************************)
(* C10.  bits(x) = BITS - leading_zeros(x); bits(0) = 0; for x # 0 bits(x) *)
(* is the b with 2^(b-1) <= x < 2^b; bits(power_of_two(p)) = p + 1.        *)
(***************************************************************************)
C10_Bits ==
    /\ pc = "bits" =>
           LET x == Value(self)
           IN  /\ ret = BITS(N) - leading_zeros(self)
               /\ x = 0 => ret = 0
               /\ x # 0 => Pow2(ret - 1) <= x /\ x < Pow2(ret)
    /\ pc = "power_of_two.bits" => ret = n + 1

\* bits of a power of two that lies in the top digit of four.
C10_Witness ==
    /\ pc = "power_of_two.bits"
    /\ N = 4
    /\ n = BITS(N) - 1
    /\ ret = BITS(N)

(***************************************************************************)
(* C11.  For 0 <= i < BITS, bit(x, i) holds exactly when floor(x / 2^i) is *)
(* odd, x the value of the little-endian digit array.                      *)
(***************************************************************************)
C11_Bit ==
    pc = "bit" /\ n < BITS(N) =>
        /\ res \in {"true", "false"}
        /\ res = "true" <=> (Value(self) \div Pow2(n)) % 2 = 1

\* A set bit of the top digit of three whose place in digit 0 is clear.
C11_Witness ==
    /\ pc = "bit"
    /\ N = 3
    /\ n = BITS(N) - 1
    /\ digit(self, 0) = 0
    /\ res = "true"

(***************************************************************************)
(* C12.  power_of_two(p) is 2^p, one set bit at index p, for p < BITS, and *)
(* panics, returning nothing, for p >= BITS.                               *)
(***************************************************************************)
C12_PowerOfTwo ==
    pc = "power_of_two" =>
        /\ n < BITS(N) =>
               /\ res = "value"
               /\ Value(out) = Pow2(n)
               /\ count_ones(out) = 1
               /\ bit(out, n).val
        /\ n >= BITS(N) => res = "panic"

\* A power one past the top bit of a three-digit type.
C12_Witness ==
    /\ pc = "power_of_two"
    /\ N = 3
    /\ n = BITS(N)
    /\ res = "panic"

\* bit i of the natural number v
BitOf(v, i) == (v \div Pow2(i)) % 2

\* the length of the run of bits equal to b that starts at bit i of v and
\* goes down to bit 0
RECURSIVE RunDown(_, _, _)
RunDown(v, i, b) ==
    IF i < 0 \/ BitOf(v, i) # b THEN 0 ELSE 1 + RunDown(v, i - 1, b)

\* the length of the run of bits equal to b that starts at bit i of v and
\* goes up to bit w - 1
RECURSIVE RunUp(_, _, _, _)
RunUp(v, i, w, b) ==
    IF i >= w \/ BitOf(v, i) # b THEN 0 ELSE 1 + RunUp(v, i + 1, w, b)

(***************************************************************************)
(* C13.  leading_zeros / leading_ones are the length of the longest run of *)
(* 0 / 1 bits from the most significant bit, trailing_zeros /              *)
(* trailing_ones of the longest run from the least significant bit, runs   *)
(* across digit boundaries counted in full; BITS for 0 and for MAX.        *)
(***************************************************************************)
C13_BitRuns ==
    LET x == Value(self)
        w == BITS(N)
    IN  /\ pc = "leading_zeros" =>
               ret = RunDown(x, w - 1, 0) /\ (x = 0 => ret = w)
        /\ pc = "leading_ones" =>
               ret = RunDown(x, w - 1, 1) /\ (self = MAX(N) => ret = w)
        /\ pc = "trailing_zeros" =>
               ret = RunUp(x, 0, w, 0) /\ (x = 0 => ret = w)
        /\ pc = "trailing_ones" =>
               ret = RunUp(x, 0, w, 1) /\ (self = MAX(N) => ret = w)

\* A run of ones that fills digit 0 and ends inside digit 1.
C13_Witness ==
    /\ pc = "trailing_ones"
    /\ N = 3
    /\ digit(self, 0) = DigitMAX
    /\ digit(self, 1) = 1
    /\ digit(self, 2) = DigitMAX
    /\ ret = DigitBITS + 1

\* byte k of the natural number v
ByteOf(v, k) == (v \div Pow2(k * ByteBITS)) % ByteBASE

(***************************************************************************)
(* C14.  swap_bytes reverses the byte order of the whole value: byte k of  *)
(* the result is byte BYTES - 1 - k of x; applying it twice gives x back.  *)
(***************************************************************************)
C14_SwapBytes ==
    pc = "swap_bytes" =>
        /\ \A k \in 0 .. BYTES(N) - 1 :
               ByteOf(Value(out), k) = ByteOf(Value(self), BYTES(N) - 1 - k)
        /\ swap_bytes(out) = self

\* The lowest byte of a three-digit value becomes the highest byte.
C14_Witness ==
    /\ pc = "swap_bytes"
    /\ N = 3
    /\ Value(self) = 1
    /\ Value(out) = Pow2(BITS(N) - ByteBITS)

(***************************************************************************)
(* C15.  reverse_bits reverses all BITS bits: bit i of the result is bit   *)
(* BITS - 1 - i of x; applying it twice gives x back; and                  *)
(* leading_zeros(reverse_bits(x)) = trailing_zeros(x).                     *)
(***************************************************************************)
C15_ReverseBits ==
    pc = "reverse_bits" =>
        /\ \A i \in 0 .. BITS(N) - 1 :
               BitOf(Value(out), i) = BitOf(Value(self), BITS(N) - 1 - i)
        /\ reverse_bits(out) = self
        /\ leading_zeros(out) = trailing_zeros(self)

\* Bit 1 of a three-digit value becomes bit BITS - 2.
C15_Witness ==
    /\ pc = "reverse_bits"
    /\ N = 3
    /\ Value(self) = 2
    /\ Value(out) = Pow2(BITS(N) - 2)
    /\ leading_zeros(out) = 1

\* the least and the greatest value of a signed integer of c digits
IntMIN(c) == 0 - Pow2(BITS(c) - 1)
IntMAX(c) == Pow2(BITS(c) - 1) - 1

\* v clamped to [lo, hi]
Clamp(v, lo, hi) == IF v < lo THEN lo ELSE IF v > hi THEN hi ELSE v

\* a^e clamped to [lo, hi], for lo < 0 < hi: once a product leaves the range
\* its magnitude only grows, so clamping each product keeps the side
RECURSIVE PowClamp(_, _, _, _)
PowClamp(a, e, lo, hi) ==
    IF e = 0 THEN 1 ELSE Clamp(PowClamp(a, e - 1, lo, hi) * a, lo, hi)

(***************************************************************************)
(* C16.  saturating_add(a, b) is a + b clamped to [MIN, MAX]: a + b when   *)
(* checked_add is Some, MAX when the sum exceeds MAX, MIN when it is below *)
(* MIN; the sign of self names the side of the overflow.                   *)
(***************************************************************************)
C16_SaturatingAdd ==
    pc = "saturating_add" =>
        LET sum == IntValue(self) + IntValue(other)
        IN  /\ IntValue(out) = Clamp(sum, IntMIN(N), IntMAX(N))
            /\ BInt_checked_add(self, other).some => IntValue(out) = sum
            /\ sum > IntMAX(N) => out = BInt_MAX(N) /\ ~is_negative(self)
            /\ sum < IntMIN(N) => out = BInt_MIN(N) /\ is_negative(self)

\* Two negative three-digit values whose sum is below MIN.
C16_Witness ==
    /\ pc = "saturating_add"
    /\ N = 3
    /\ IntValue(self) + IntValue(other) < IntMIN(N)
    /\ ~BInt_checked_add(self, other).some
    /\ out = BInt_MIN(N)

(***************************************************************************)
(* C17.  saturating_sub(a, b) is a - b clamped to [MIN, MAX]: MIN when     *)
(* a - b < MIN (a negative, b positive), MAX when a - b > MAX (a           *)
(* non-negative, b negative), b = MIN included.                            *)
(***************************************************************************)
C17_SaturatingSub ==
    pc = "saturating_sub" =>
        LET diff == IntValue(self) - IntValue(other)
        IN  /\ IntValue(out) = Clamp(diff, IntMIN(N), IntMAX(N))
            /\ diff < IntMIN(N) =>
                   /\ out = BInt_MIN(N)
                   /\ is_negative(self)
                   /\ IntValue(other) > 0
            /\ diff > IntMAX(N) =>
                   /\ out = BInt_MAX(N)
                   /\ ~is_negative(self)
                   /\ is_negative(other)

\* MIN subtracted from a non-negative value.
C17_Witness ==
    /\ pc = "saturating_sub"
    /\ N = 3
    /\ other = BInt_MIN(N)
    /\ IntValue(self) = 1
    /\ out = BInt_MAX(N)

(***************************************************************************)
(* C18.  saturating_mul(a, b) is a * b clamped to [MIN, MAX]: on overflow  *)
(* MAX when a and b have the same sign and MIN when the signs differ; it   *)
(* never clamps when an operand is zero.                                   *)
(***************************************************************************)
C18_SaturatingMul ==
    pc = "saturating_mul" =>
        LET prod == IntValue(self) * IntValue(other)
            overflow == ~BInt_checked_mul(self, other).some
        IN  /\ IntValue(out) = Clamp(prod, IntMIN(N), IntMAX(N))
            /\ overflow /\ is_negative(self) = is_negative(other) => out = BInt_MAX(N)
            /\ overflow /\ is_negative(self) # is_negative(other) => out = BInt_MIN(N)
            /\ IntValue(self) = 0 \/ IntValue(other) = 0 =>
                   ~overflow /\ out = ZERO(N)

\* Two negative values whose product exceeds MAX.
C18_Witness ==
    /\ pc = "saturating_mul"
    /\ N = 3
    /\ is_negative(self)
    /\ is_negative(other)
    /\ ~BInt_checked_mul(self, other).some
    /\ out = BInt_MAX(N)

(***************************************************************************)
(* C19.  saturating_pow(a, e) is a^e clamped to [MIN, MAX]: on overflow    *)
(* MIN exactly when a is negative and e is odd, MAX otherwise; a^0 = 1.    *)
(***************************************************************************)
C19_SaturatingPow ==
    pc = "saturating_pow" =>
        LET overflow == ~BInt_checked_pow(self, n).some
        IN  /\ IntValue(out) = PowClamp(IntValue(self), n, IntMIN(N), IntMAX(N))
            /\ overflow =>
                   /\ out = BInt_MIN(N) <=> (IntValue(self) < 0 /\ n % 2 = 1)
                   /\ out = BInt_MAX(N) <=> ~(IntValue(self) < 0 /\ n % 2 = 1)
            /\ n = 0 => IntValue(out) = 1

\* An odd power of a negative value below MIN.
C19_Witness ==
    /\ pc = "saturating_pow"
    /\ N = 3
    /\ IntValue(self) = 0 - 3
    /\ n = 5
    /\ out = BInt_MIN(N)

(***************************************************************************)
(* C20.  MIN is the only value whose negation and absolute value overflow: *)
(* saturating_neg(MIN) = saturating_abs(MIN) = MAX; for every other a,     *)
(* saturating_neg(a) = -a and saturating_abs(a) = |a|; saturating_neg(MAX) *)
(* = MIN + 1 and saturating_abs is never negative.                         *)
(***************************************************************************)
C20_SaturatingNegAbs ==
    LET a == IntValue(self)
    IN  /\ pc = "saturating_neg" =>
               /\ BInt_checked_neg(self).some <=> self # BInt_MIN(N)
               /\ self = BInt_MIN(N) => out = BInt_MAX(N)
               /\ self # BInt_MIN(N) => IntValue(out) = 0 - a
               /\ self = BInt_MAX(N) => IntValue(out) = IntMIN(N) + 1
        /\ pc = "saturating_abs" =>
               /\ BInt_checked_abs(self).some <=> self # BInt_MIN(N)
               /\ self = BInt_MIN(N) => out = BInt_MAX(N)
               /\ self # BInt_MIN(N) => IntValue(out) = (IF a < 0 THEN 0 - a ELSE a)
               /\ ~is_negative(out)

\* The negation of MIN, clamped to MAX.
C20_Witness ==
    /\ pc = "saturating_neg"
    /\ N = 3
    /\ self = BInt_MIN(N)
    /\ IntValue(self) = IntMIN(N)
    /\ out = BInt_MAX(N)
    /\ IntValue(out) = IntMAX(N)

(***************************************************************************)
(* C21.  The signed constants denote their named two's-complement values:  *)
(* MIN has only the sign bit set and is -2^(BITS-1); MAX has every bit but *)
(* the sign bit set and is 2^(BITS-1) - 1; NEG_k has the bit pattern       *)
(* 2^BITS - k, which is -k (whenever -k is a value of the type), and       *)
(* NEG_ONE is all ones.                                                    *)
(***************************************************************************)
C21_SignedConsts ==
    /\ pc = "MIN" =>
           /\ Value(out) = Pow2(BITS(N) - 1)
           /\ \A i \in 0 .. BITS(N) - 1 : BitOf(Value(out), i) = 1 <=> i = BITS(N) - 1
           /\ IntValue(out) = 0 - Pow2(BITS(N) - 1)
    /\ pc = "MAX" =>
           /\ Value(out) = Pow2(BITS(N) - 1) - 1
           /\ \A i \in 0 .. BITS(N) - 1 : BitOf(Value(out), i) = 1 <=> i # BITS(N) - 1
           /\ IntValue(out) = Pow2(BITS(N) - 1) - 1
    /\ pc = "NEG" =>
           /\ Value(out) = Pow2(BITS(N)) - n
           /\ n <= Pow2(BITS(N) - 1) => IntValue(out) = 0 - n
           /\ n = 1 => out = MAX(N)

\* NEG_FOUR of a three-digit type: the low digit alone is changed.
C21_Witness ==
    /\ pc = "NEG"
    /\ N = 3
    /\ n = 4
    /\ digit(out, 0) = DigitMAX - 3
    /\ digit(out, 2) = DigitMAX
    /\ IntValue(out) = 0 - 4

(***************************************************************************)
(* C22.  U512::from(x) zero-extends a U256 x: the four low digits are x's, *)
(* the four high digits are zero, the value is the same; narrowing the     *)
(* widened value back returns Ok(x), U256::MAX included; narrowing a U512  *)
(* fails exactly when it is greater than U256::MAX.                        *)
(***************************************************************************)
C22_WidenNarrow ==
    /\ pc = "from" =>
           /\ Len(out) = U512_N
           /\ \A i \in 0 .. U256_N - 1 : digit(out, i) = digit(self, i)
           /\ \A i \in U256_N .. U512_N - 1 : digit(out, i) = 0
           /\ Value(out) = Value(self)
    /\ pc = "from.try_from" => res = "Ok" /\ out = self
    /\ pc = "try_from" =>
           /\ res = "Err" <=> Value(value) > Value(MAX(U256_N))
           /\ res = "Ok" => Value(out) = Value(value) /\ Len(out) = U256_N

\* U256::MAX widened and narrowed back.
C22_Witness ==
    /\ pc = "from.try_from"
    /\ self = MAX(U256_N)
    /\ Value(value) = Pow2(BITS(U256_N)) - 1
    /\ Len(value) = U512_N
    /\ res = "Ok"
    /\ out = self

(***************************************************************************)
(* C23.  gcd terminates for every pair of inputs: at the head of the loop  *)
(* u and v are odd and u + v strictly decreases at each iteration; no      *)
(* shift inside gcd is called with an amount >= BITS; and the final left   *)
(* shift by k = min(tz(a), tz(b)) loses no set bit.                        *)
(***************************************************************************)
C23_GcdTerminates ==
    /\ [](pc = "gcd.loop" => Value(gcd_u) % 2 = 1 /\ Value(gcd_v) % 2 = 1)
    /\ [](\A r \in shifts : r < BITS(N))
    /\ [](pc = "gcd.return" =>
              /\ Value(out) = Value(gcd_u) * Pow2(gcd_k)
              /\ \/ gcd_k = Min(RunUp(Value(self), 0, BITS(N), 0),
                                RunUp(Value(other), 0, BITS(N), 0))
                 \/ Value(self) = 0
                 \/ Value(other) = 0)
    /\ [][pc = "gcd.loop" /\ pc' = "gcd.loop" =>
              Value(gcd_u') + Value(gcd_v') < Value(gcd_u) + Value(gcd_v)]_vars
    /\ <>(pc = "gcd.return")

\* gcd(12, 18) = 6 on three digits: the loop has run and the result is the
\* odd part 3 shifted left by k = 1.
C23_Witness ==
    /\ pc = "gcd.return"
    /\ N = 3
    /\ Value(self) = 12
    /\ Value(other) = 18
    /\ Value(gcd_u) = 3
    /\ gcd_k = 1
    /\ shifts = {1}
    /\ steps = 3
    /\ Value(out) = 6

(***************************************************************************)
(* C24.  For 0 <= rhs < BITS, buint::unchecked_shl(u, rhs) is              *)
(* (u * 2^rhs) mod 2^BITS: the bits shifted past the top digit are         *)
(* discarded and every digit below the whole-digit shift is zero, whether  *)
(* rhs is a multiple of the digit width or not.                            *)
(***************************************************************************)
C24_UncheckedShl ==
    pc = "unchecked_shl" =>
        /\ Value(out) = (Value(self) * Pow2(n)) % Pow2(BITS(N))
        /\ \A i \in 0 .. (n \div DigitBITS) - 1 : digit(out, i) = 0

\* A shift by one digit and one bit that carries bits across a digit
\* boundary and discards the top bit.
C24_Witness ==
    /\ pc = "unchecked_shl"
    /\ N = 3
    /\ n = DigitBITS + 1
    /\ self = MAX(N)
    /\ digit(out, 0) = 0
    /\ digit(out, 1) = DigitMAX - 1
    /\ digit(out, 2) = DigitMAX

(***************************************************************************)
(* C25.  For 0 <= rhs < BITS, the older uint::unchecked_shl(u, rhs) is     *)
(* (u * 2^rhs) mod 2^BITS as well: a carry out of the top digit is dropped *)
(* and written into no digit of the result.                                *)
(***************************************************************************)
C25_UintUncheckedShl ==
    pc = "uint::unchecked_shl" =>
        Value(out) = (Value(self) * Pow2(n)) % Pow2(BITS(N))

(***************************************************************************)
(* C26.  For 0 <= rhs < BITS, unchecked_shr_pad::<N, PAD>(u, rhs) has bit  *)
(* i equal to bit i + rhs of u for every i < BITS - rhs, and its top rhs   *)
(* bits equal to the pad bit (0 for PAD = 0, 1 for PAD = Digit::MAX); so   *)
(* unchecked_shr(u, rhs) = floor(u / 2^rhs), and with PAD = Digit::MAX on  *)
(* a u whose top bit is set the result is the arithmetic right shift.      *)
(***************************************************************************)
C26_UncheckedShrPad ==
    LET w == BITS(N)
        shifted(pad) ==
            /\ \A i \in 0 .. w - n - 1 :
                   BitOf(Value(out), i) = BitOf(Value(self), i + n)
            /\ \A i \in w - n .. w - 1 : BitOf(Value(out), i) = pad
    IN  /\ pc = "unchecked_shr" =>
               /\ shifted(0)
               /\ Value(out) = Value(self) \div Pow2(n)
        /\ pc = "unchecked_shr_pad::<MAX>" =>
               /\ shifted(1)
               /\ is_negative(self) =>
                      0 - IntValue(out) = ((0 - IntValue(self)) + Pow2(n) - 1) \div Pow2(n)

\* MIN shifted right by one digit and one bit, padded with ones: the pad
\* fills the top digit and the top bit of the digit below.
C26_Witness ==
    /\ pc = "unchecked_shr_pad::<MAX>"
    /\ N = 3
    /\ n = DigitBITS + 1
    /\ self = BInt_MIN(N)
    /\ digit(out, 2) = DigitMAX
    /\ digit(out, 1) = DigitMAX
    /\ digit(out, 0) = 0
    /\ IntValue(out) * Pow2(n) = IntValue(self)

(***************************************************************************)
(* C27.  to_mantissa(x) is the top 64 significant bits of x (the top       *)
(* U64_BITS bits, in the model's scale): x itself when bits(x) <= 64, and  *)
(* floor(x / 2^(bits(x) - 64)) when bits(x) > 64, which has its top bit    *)
(* set, however the window lies across the digits.                         *)
(***************************************************************************)
C27_ToMantissa ==
    pc = "to_mantissa" =>
        LET x == Value(self)
            b == BITS(N) - RunDown(x, BITS(N) - 1, 0)
        IN  /\ b <= U64_BITS => ret = x
            /\ b > U64_BITS =>
                   /\ ret = x \div Pow2(b - U64_BITS)
                   /\ ret >= Pow2(U64_BITS - 1)

\* The window takes the one significant bit of digit 2 and the top bit of
\* digit 1.
C27_Witness ==
    /\ pc = "to_mantissa"
    /\ N = 3
    /\ digit(self, 2) = 1
    /\ digit(self, 1) = DigitBASE \div 2
    /\ digit(self, 0) = 1
    /\ ret = Pow2(U64_BITS) - (Pow2(U64_BITS - 1) - 1)

(***************************************************************************)
(* C28.  to_exp_type(x) is Some(v) with v = x exactly when x < 2^W, W the  *)
(* width of ExpType, and None exactly when x >= 2^W, for every digit       *)
(* width and every W, W smaller than the digit width included.             *)
(***************************************************************************)
C28_ToExpType ==
    pc = "to_exp_type" =>
        /\ res = "Some" <=> Value(self) < Pow2(n)
        /\ res = "None" <=> Value(self) >= Pow2(n)
        /\ res = "Some" => ret = Value(self)

=============================================================================
